---- MODULE Spec2Model ----
(***************************************************************************)
(* A model of the trinity package: the bond fund simulator (bonds.py),     *)
(* the historical return aggregation (returns.py) and the withdrawal       *)
(* simulator (simulation.py).                                              *)
(*                                                                         *)
(* Python floats are modelled as exact rationals <<n, d>> in lowest terms  *)
(* with d > 0; round(x, k) is round-half-even on the exact value.          *)
(***************************************************************************)
EXTENDS Integers, Sequences, FiniteSets, TLC

VARIABLES
    call,          \* the function the client called
    pc,            \* position of the running call
    error,         \* the exception the call ended with, or "none"
    \* bonds.simulate_returns
    rates,         \* the argument: sequence of <<rate, rate_long>>
    pos,           \* number of items the iterator `rates` has yielded
    cur,           \* the loop variables (rate, rate_long)
    ladder,        \* the deque of (par, rate) tuples
    nav,           \* nav of the previous year
    tmp,           \* nav of the year whose return is being recorded
    returns,       \* the list `returns` of simulate_returns
    \* returns.get_returns / get_bond_returns
    shiller,       \* the rows read_shiller() returned
    years,         \* the tuple `years` of get_bond_returns
    bond_returns,  \* the dict get_bond_returns returns
    k,             \* index of the zip(shiller[:-1], shiller[1:]) loop
    returns_map,   \* the dict of returns by year
    \* simulation.calc_success_rate / simulate / get_periods
    start_year, end_year, duration,
    stock_allocation, withdrawal_rate,
    periods,       \* the list get_periods returned
    p,             \* number of periods the generator has consumed
    successes,     \* the running sum of simulate's results
    year,          \* loop variable of simulate
    balance, withdrawal,
    history,       \* end-of-year balances of the running simulate call
    success_rate   \* the value calc_success_rate returned, <<>> before that

vars == <<call, pc, error, rates, pos, cur, ladder, nav, tmp, returns, shiller,
          years,
          bond_returns, k, returns_map, start_year, end_year, duration,
          stock_allocation, withdrawal_rate, periods, p, successes, year,
          balance, withdrawal, history, success_rate>>

bondVars == <<rates, pos, cur, ladder, nav, tmp, returns>>
aggVars == <<shiller, years, bond_returns, k>>
simVars == <<start_year, end_year, duration, stock_allocation,
             withdrawal_rate, periods, p, successes, year, balance,
             withdrawal, history, success_rate>>

None == "None"   \* a value not yet computed
EmptyDict == [key \in {} |-> None]   \* the dict {}

----------------------------------------------------------------------------
(* Bounds of the model. *)

MaxLen == 4        \* longest sequence of rate pairs given to simulate_returns
MaxRecords == 3    \* most rows of the market data set
MaxSpan == 4       \* get_periods: latest end year of the small cases
MaxDuration == 4   \* get_periods: longest duration of the small cases

----------------------------------------------------------------------------
(* Exact rational arithmetic standing for Python float arithmetic. *)

Abs(x) == IF x < 0 THEN -x ELSE x

RECURSIVE GCD(_, _)
GCD(a, b) == IF b = 0 THEN Abs(a) ELSE GCD(b, a % Abs(b))

Norm(n, d) ==
    LET g == GCD(n, d)
        s == IF d < 0 THEN -1 ELSE 1
    IN  <<s * (n \div g), s * (d \div g)>>

RInt(n) == <<n, 1>>
Frac(n, d) == Norm(n, d)
Zero == RInt(0)
One == RInt(1)

RNeg(a) == <<-a[1], a[2]>>

RAdd(a, b) ==
    IF a[1] = 0 THEN b
    ELSE IF b[1] = 0 THEN a
    ELSE LET g == GCD(a[2], b[2])
         IN  Norm(a[1] * (b[2] \div g) + b[1] * (a[2] \div g), (a[2] \div g) * b[2])

RSub(a, b) == RAdd(a, RNeg(b))

RMul(a, b) ==
    IF a[1] = 0 \/ b[1] = 0 THEN Zero
    ELSE LET g1 == GCD(a[1], b[2])
             g2 == GCD(b[1], a[2])
         IN  Norm((a[1] \div g1) * (b[1] \div g2), (a[2] \div g2) * (b[2] \div g1))

\* a / b; the callers test b # 0 where Python would raise ZeroDivisionError
RDiv(a, b) == RMul(a, IF b[1] < 0 THEN <<-b[2], -b[1]>> ELSE <<b[2], b[1]>>)

RLess(a, b) == a[1] * b[2] < b[1] * a[2]
RLeq(a, b) == a[1] * b[2] <= b[1] * a[2]
RPos(a) == a[1] > 0

\* a ** n for an int n >= 0: a is in lowest terms, and so are its powers
RPow(a, n) == IF n = 0 THEN One ELSE <<a[1] ^ n, a[2] ^ n>>

\* one more decimal digit of the long division of wr[2] by d
Digit(wr, d) == <<wr[1] * 10 + ((wr[2] * 10) \div d), (wr[2] * 10) % d>>

\* <<floor(x * 10^nd), remainder>> for nd = 2 or nd = 4
Digits(x, nd) ==
    LET d == x[2]
        d2 == Digit(Digit(<<x[1] \div d, x[1] % d>>, d), d)
    IN  IF nd = 2 THEN d2 ELSE Digit(Digit(d2, d), d)

\* round(x, nd): to the nearest multiple of 10^-nd, ties to even
Round(x, nd) ==
    LET fl == Digits(x, nd)
        up == \/ 2 * fl[2] > x[2]
              \/ 2 * fl[2] = x[2] /\ fl[1] % 2 = 1
    IN  Norm(IF up THEN fl[1] + 1 ELSE fl[1], 10 ^ nd)

\* the i-th term of s, 0 past its end
Term(s, i) == IF i <= Len(s) THEN s[i] ELSE Zero

\* sum(s) of a sequence of at most 10 terms (no ladder is longer: the deque
\* has maxlen 10); the exact sum does not depend on the order of the additions
Sum(s) ==
    LET t == s \o <<>>
    IN  IF Len(t) = 0 THEN Zero
        ELSE RAdd(RAdd(RAdd(RAdd(t[1], Term(t, 2)), RAdd(Term(t, 3), Term(t, 4))),
                       RAdd(RAdd(Term(t, 5), Term(t, 6)), RAdd(Term(t, 7), Term(t, 8)))),
                  RAdd(Term(t, 9), Term(t, 10)))

\* Values of the variables of a call that has not started.
BondsIdle == pos = 0 /\ cur = <<>> /\ ladder = <<>> /\ nav = Zero /\ tmp = Zero /\ returns = <<>>
AggIdle == years = <<>> /\ bond_returns = EmptyDict /\ k = 0
SimIdle ==
    /\ start_year = 0 /\ end_year = 0 /\ duration = 0
    /\ stock_allocation = Zero /\ withdrawal_rate = Zero
    /\ periods = <<>> /\ p = 0 /\ successes = 0 /\ year = 0
    /\ balance = Zero /\ withdrawal = Zero /\ history = <<>>
    /\ success_rate = <<>>

----------------------------------------------------------------------------
(* bonds.py *)

LadderMaxLen == 10   \* collections.deque(maxlen=10)
InitBonds == 10      \* range(10) in init_ladder

\* deque.append on a deque with maxlen: a full deque drops its left end
DequeAppend(dq, x) ==
    IF Len(dq) = LadderMaxLen THEN Append(Tail(dq), x) ELSE Append(dq, x)

calc_rate(rate, rate_long, maturity) ==
    RAdd(rate, RDiv(RMul(RSub(rate_long, rate), RInt(maturity - 1)), RInt(9)))

\* pv of the final payment alone, the coupons left out
pv_without_payments(rate, nper, pmt, fv) ==
    IF rate = Zero
    THEN RNeg(fv)
    ELSE RDiv(RNeg(fv), RPow(RAdd(One, rate), nper))

pv(rate, nper, pmt, fv) ==
    IF rate = Zero
    THEN RNeg(RAdd(fv, RMul(pmt, RInt(nper))))
    ELSE LET temp == RPow(RAdd(One, rate), nper)
         IN  RDiv(RNeg(RAdd(fv, RDiv(RMul(pmt, RSub(temp, One)), rate))), temp)

\* dq after deque.append of every item of xs in turn
DequeExtend(dq, xs) ==
    LET all == dq \o xs
    IN  IF Len(all) <= LadderMaxLen THEN all
        ELSE SubSeq(all, Len(all) - LadderMaxLen + 1, Len(all))

init_ladder(dq, rate) ==
    DequeExtend(dq, [n \in 1..InitBonds |-> <<RPow(RAdd(One, rate), n - 1), rate>>])

\* sum(rate*par for rate, par in ladder): the tuples are unpacked as
\* (rate, par), so `rate` is bond[1] and `par` is bond[2]
SumPayments(dq) == Sum([i \in 1..Len(dq) |-> RMul(dq[i][1], dq[i][2])])

\* step that sells the maturing bond and buys nothing
step_no_purchase(dq, rate_long) == Tail(dq)

\* step that sums the payments after selling the maturing bond
step_sum_after_sale(dq, rate_long) ==
    LET par == Head(dq)[1]
        capital == SumPayments(Tail(dq))
    IN  DequeAppend(Tail(dq), <<RAdd(capital, par), rate_long>>)

step(dq, rate_long) ==
    LET capital == SumPayments(dq)
        par == Head(dq)[1]
    IN  DequeAppend(Tail(dq), <<RAdd(capital, par), rate_long>>)

\* nav = 0.0, then nav -= pv(...) for every bond in turn
calc_nav(dq, rate, rate_long) ==
    Sum([i \in 1..Len(dq) |->
            RNeg(pv(calc_rate(rate, rate_long, i), i,
                    RMul(dq[i][1], dq[i][2]), dq[i][1]))])

total_return(new, old) == Round(RSub(RDiv(new, old), One), 4)

\* The interest rates the model draws from; yield curves are flat
\* (rate = rate_long) so that the exact arithmetic stays within TLC's integers.
Rates == {Zero, One, Frac(-1, 2)}
RatePairs == {<<r, r>> : r \in Rates}

SeqsUpTo(S, n) == UNION {[1..m -> S] : m \in 0..n}

\* simulate_returns, lines 28-31: make the iterator and the deque, take the first pair
SimEnter ==
    /\ pc = "sim_enter"
    /\ IF Len(rates) = 0
       THEN /\ pc' = "error"
            /\ error' = "StopIteration"
            /\ UNCHANGED <<pos, cur, ladder>>
       ELSE /\ pc' = "sim_init"
            /\ pos' = 1
            /\ cur' = rates[1]
            /\ ladder' = <<>>
            /\ UNCHANGED error
    /\ UNCHANGED <<rates, nav, tmp, returns, aggVars, returns_map, simVars, call>>

\* line 32
InitLadder ==
    /\ pc = "sim_init"
    /\ ladder' = init_ladder(ladder, cur[2])
    /\ pc' = "sim_nav0"
    /\ UNCHANGED <<error, rates, pos, cur, nav, tmp, returns, aggVars, returns_map, simVars, call>>

\* lines 33-35
FirstNav ==
    /\ pc = "sim_nav0"
    /\ nav' = calc_nav(ladder, cur[1], cur[2])
    /\ returns' = <<>>
    /\ pc' = "sim_for"
    /\ UNCHANGED <<error, rates, pos, cur, ladder, tmp, aggVars, returns_map, simVars, call>>

\* line 36: the for statement takes the next pair or leaves the loop
LoopNext ==
    /\ pc = "sim_for"
    /\ IF pos < Len(rates)
       THEN /\ pos' = pos + 1
            /\ cur' = rates[pos + 1]
            /\ pc' = "sim_step"
       ELSE /\ pc' = "sim_return"
            /\ UNCHANGED <<pos, cur>>
    /\ UNCHANGED <<error, rates, ladder, nav, tmp, returns, aggVars, returns_map, simVars, call>>

\* line 37
Step ==
    /\ pc = "sim_step"
    /\ ladder' = step(ladder, cur[2])
    /\ pc' = "sim_nav"
    /\ UNCHANGED <<error, rates, pos, cur, nav, tmp, returns, aggVars, returns_map, simVars, call>>

\* line 38
CalcNav ==
    /\ pc = "sim_nav"
    /\ tmp' = calc_nav(ladder, cur[1], cur[2])
    /\ pc' = "sim_record"
    /\ UNCHANGED <<error, rates, pos, cur, ladder, nav, returns, aggVars, returns_map, simVars, call>>

\* the loop body without line 41: nav stays the bootstrap year's
Record_stale_nav ==
    /\ pc = "sim_record"
    /\ returns' = Append(returns, total_return(tmp, nav))
    /\ pc' = "sim_for"
    /\ UNCHANGED <<error, rates, pos, cur, ladder, nav, tmp, aggVars, returns_map, simVars, call>>

\* lines 39-41
Record ==
    /\ pc = "sim_record"
    /\ returns' = Append(returns, total_return(tmp, nav))
    /\ nav' = tmp
    /\ pc' = "sim_for"
    /\ UNCHANGED <<error, rates, pos, cur, ladder, tmp, aggVars, returns_map, simVars, call>>

\* line 43, when simulate_returns is the outermost call
SimReturn ==
    /\ pc = "sim_return"
    /\ call = "simulate_returns"
    /\ pc' = "done"
    /\ UNCHANGED <<error, bondVars, aggVars, returns_map, simVars, call>>

InitBondsCall ==
    /\ pc = "sim_enter"
    /\ error = "none"
    /\ call = "simulate_returns"
    /\ rates \in SeqsUpTo(RatePairs, MaxLen)
    /\ BondsIdle
    /\ shiller = <<>>
    /\ AggIdle
    /\ returns_map = EmptyDict
    /\ SimIdle

NextBonds ==
    \/ SimEnter \/ InitLadder \/ FirstNav \/ LoopNext \/ Step \/ CalcNav \/ Record
    \/ SimReturn

SpecBonds == InitBondsCall /\ [][NextBonds]_vars

----------------------------------------------------------------------------
(* returns.py *)

real_return(nominal_return, inflation_rate) ==
    RSub(RDiv(RAdd(One, nominal_return), RAdd(One, inflation_rate)), One)

annual_returns(current, future, bond_return) ==
    LET inflation == RSub(RDiv(future.cpi, current.cpi), One)
        stock_return ==
            real_return(RDiv(RSub(RAdd(future.price, current.dividends),
                                  current.price),
                             current.price),
                        inflation)
    IN  [stocks |-> stock_return, bonds |-> real_return(bond_return, inflation)]

Min(a, b) == IF a < b THEN a ELSE b

\* dict(zip(ks, vs)): zip stops at the shorter argument, a later pair
\* replaces an earlier one with the same key
DictZip(ks, vs) ==
    LET n == Min(Len(ks), Len(vs))
    IN  [key \in {ks[i] : i \in 1..n} |->
            vs[CHOOSE i \in 1..n :
                  /\ ks[i] = key
                  /\ \A j \in 1..n : ks[j] = key => j <= i]]

\* get_bond_returns pairing the returns with the years after the first
bond_returns_by_later_year(ys, rs) == DictZip(Tail(ys), rs)

\* line 95 of get_bond_returns
bond_returns_by_year(ys, rs) == DictZip(ys, rs)

DictPut(d, key, v) ==
    [x \in DOMAIN d \cup {key} |-> IF x = key THEN v ELSE d[x]]

\* The rows the model draws from: one row per year, years consecutive.
Prices == {RInt(1), RInt(2)}
Dividends == {RInt(0), RInt(1)}
Cpis == {RInt(1), RInt(2)}
RowRates == {Zero, One}

\* Half of the 16 combinations: every field takes both its values and every
\* two fields take all four combinations of theirs.
RowData ==
    {d \in [price : Prices, dividends : Dividends, cpi : Cpis, rate : RowRates] :
        (d.price[1] + d.dividends[1] + d.cpi[1] + d.rate[1]) % 2 = 0}

Row(y, d) ==
    [year |-> y, price |-> d.price, dividends |-> d.dividends,
     rate |-> d.rate, rate_long |-> d.rate, cpi |-> d.cpi]

Datasets ==
    {[i \in 1..Len(ds) |-> Row(1870 + i, ds[i])] : ds \in SeqsUpTo(RowData, MaxRecords)}

\* get_returns lines 23-24 and get_bond_returns lines 89-93: read the rows,
\* unzip them into years and interest rates, call simulate_returns
GetReturnsEnter ==
    /\ pc = "agg_enter"
    /\ IF Len(shiller) = 0
       THEN /\ pc' = "error"
            /\ error' = "ValueError"
            /\ UNCHANGED <<years, rates>>
       ELSE /\ years' = [i \in 1..Len(shiller) |-> shiller[i].year]
            /\ rates' = [i \in 1..Len(shiller) |->
                            <<shiller[i].rate, shiller[i].rate_long>>]
            /\ pc' = "sim_enter"
            /\ UNCHANGED error
    /\ UNCHANGED <<pos, cur, ladder, nav, tmp, returns, shiller, bond_returns, k,
                   returns_map, simVars, call>>

\* bonds.py line 43, get_bond_returns lines 94-95, get_returns line 25
BondReturnsDone ==
    /\ pc = "sim_return"
    /\ call = "get_returns"
    /\ bond_returns' = bond_returns_by_year(years, returns)
    /\ returns_map' = EmptyDict
    /\ k' = 0
    /\ pc' = "agg_for"
    /\ UNCHANGED <<error, bondVars, shiller, years, simVars, call>>

\* get_returns lines 26-29: one turn of the loop over
\* zip(shiller[:-1], shiller[1:]), or the return when it is exhausted
AggLoop ==
    /\ pc = "agg_for"
    /\ IF k < Len(shiller) - 1
       THEN LET current == shiller[k + 1]
                future == shiller[k + 2]
            IN  IF current.year \in DOMAIN bond_returns
                THEN /\ returns_map' =
                            DictPut(returns_map, current.year,
                                    annual_returns(current, future,
                                                   bond_returns[current.year]))
                     /\ k' = k + 1
                     /\ UNCHANGED <<pc, error>>
                ELSE /\ pc' = "error"
                     /\ error' = "KeyError"
                     /\ UNCHANGED <<returns_map, k>>
       ELSE /\ pc' = "done"
            /\ UNCHANGED <<error, returns_map, k>>
    /\ UNCHANGED <<bondVars, shiller, years, bond_returns, simVars, call>>

InitGetReturns ==
    /\ pc = "agg_enter"
    /\ error = "none"
    /\ call = "get_returns"
    /\ shiller \in Datasets
    /\ rates = <<>>
    /\ BondsIdle
    /\ AggIdle
    /\ returns_map = EmptyDict
    /\ SimIdle

NextReturns ==
    \/ GetReturnsEnter
    \/ SimEnter \/ InitLadder \/ FirstNav \/ LoopNext \/ Step \/ CalcNav \/ Record
    \/ BondReturnsDone
    \/ AggLoop

SpecReturns == InitGetReturns /\ [][NextReturns]_vars

----------------------------------------------------------------------------
(* simulation.py *)

StudyStart == 1926   \* get_periods(1926, 1995, duration)
StudyEnd == 1995
StartBalance == 1000000

update_portfolio(rets, wd, alloc, bal) ==
    RSub(RAdd(RMul(RMul(bal, alloc), RAdd(One, rets.stocks)),
              RMul(RMul(bal, RSub(One, alloc)), RAdd(One, rets.bonds))),
         wd)

\* simulate returning balance >= 0
survived_at_zero(bal) == RLeq(Zero, bal)

\* line 97: balance > 0
survived(bal) == RPos(bal)

\* The call get_periods(start_year, end_year, duration) on its own.
PeriodInputs ==
    {<<s, e, d>> : s \in -1..1, e \in -3..MaxSpan, d \in 1..MaxDuration}
        \cup {<<StudyStart, StudyEnd, d>> : d \in {15, 20, 25, 30}}

\* get_periods lines 152-153
GetPeriodsEnter ==
    /\ pc = "gp_enter"
    /\ periods' = <<>>
    /\ year' = start_year
    /\ pc' = "gp_while"
    /\ UNCHANGED <<error, bondVars, aggVars, returns_map, start_year, end_year,
                   duration, stock_allocation, withdrawal_rate, p, successes,
                   balance, withdrawal, history, success_rate, call>>

\* where get_periods returns to
AfterGetPeriods == IF call = "get_periods" THEN "done" ELSE "csr_for"

\* the loop of get_periods with `<` for `<=` in its test
GetPeriodsWhile_strict ==
    /\ pc = "gp_while"
    /\ IF year + duration - 1 < end_year
       THEN /\ periods' = Append(periods, <<year, year + duration - 1>>)
            /\ year' = year + 1
            /\ UNCHANGED pc
       ELSE /\ pc' = AfterGetPeriods
            /\ UNCHANGED <<periods, year>>
    /\ UNCHANGED <<error, bondVars, aggVars, returns_map, start_year, end_year,
                   duration, stock_allocation, withdrawal_rate, p, successes,
                   balance, withdrawal, history, success_rate, call>>

\* get_periods lines 154-157: one test of the while loop, then its body or
\* the return
GetPeriodsWhile ==
    /\ pc = "gp_while"
    /\ IF year + duration - 1 <= end_year
       THEN /\ periods' = Append(periods, <<year, year + duration - 1>>)
            /\ year' = year + 1
            /\ UNCHANGED pc
       ELSE /\ pc' = AfterGetPeriods
            /\ UNCHANGED <<periods, year>>
    /\ UNCHANGED <<error, bondVars, aggVars, returns_map, start_year, end_year,
                   duration, stock_allocation, withdrawal_rate, p, successes,
                   balance, withdrawal, history, success_rate, call>>

InitGetPeriods ==
    /\ pc = "gp_enter"
    /\ error = "none"
    /\ call = "get_periods"
    /\ rates = <<>>
    /\ BondsIdle
    /\ shiller = <<>>
    /\ AggIdle
    /\ returns_map = EmptyDict
    /\ \E in \in PeriodInputs :
          /\ start_year = in[1]
          /\ end_year = in[2]
          /\ duration = in[3]
    /\ stock_allocation = Zero /\ withdrawal_rate = Zero
    /\ periods = <<>> /\ p = 0 /\ successes = 0 /\ year = 0
    /\ balance = Zero /\ withdrawal = Zero /\ history = <<>>
    /\ success_rate = <<>>

NextPeriods == GetPeriodsEnter \/ GetPeriodsWhile

SpecPeriods == InitGetPeriods /\ [][NextPeriods]_vars

\* The returns mappings the model draws from: one entry per year from 1926 to
\* the last year, all returns 0 except in the event years.
LastYears == {1990, 1995, 2009}
EventYears == {{}, {1930}, {1930, 1960}}
EventReturns ==
    {[stocks |-> RInt(-1), bonds |-> RInt(-1)],
     [stocks |-> RInt(-2), bonds |-> RInt(-2)],
     [stocks |-> RInt(1), bonds |-> Frac(-1, 2)]}
Quiet == [stocks |-> Zero, bonds |-> Zero]

ReturnMaps ==
    {[y \in StudyStart..last |-> IF y \in ev THEN r ELSE Quiet] :
        last \in LastYears, ev \in EventYears, r \in EventReturns}

Allocations == {Zero, Frac(1, 2), One}
WithdrawalRates == {Zero, Frac(1, 25), Frac(1, 10)}
Durations == {20, 30, 70, 71}

\* calc_success_rate line 59: the call get_periods(1926, 1995, duration)
CsrEnter ==
    /\ pc = "csr_enter"
    /\ start_year' = StudyStart
    /\ end_year' = StudyEnd
    /\ successes' = 0
    /\ p' = 0
    /\ pc' = "gp_enter"
    /\ UNCHANGED <<error, bondVars, aggVars, returns_map, duration,
                   stock_allocation, withdrawal_rate, periods, year, balance,
                   withdrawal, history, success_rate, call>>

\* lines 60-63: the generator takes the next period and calls simulate
\* (lines 90-91), or is exhausted
CsrNext ==
    /\ pc = "csr_for"
    /\ IF p < Len(periods)
       THEN /\ p' = p + 1
            /\ start_year' = periods[p + 1][1]
            /\ end_year' = periods[p + 1][2]
            /\ balance' = RInt(StartBalance)
            /\ withdrawal' = RMul(RInt(StartBalance), withdrawal_rate)
            /\ year' = periods[p + 1][1]
            /\ history' = <<>>
            /\ pc' = "simulate_for"
       ELSE /\ pc' = "csr_divide"
            /\ UNCHANGED <<p, start_year, end_year, balance, withdrawal, year, history>>
    /\ UNCHANGED <<error, bondVars, aggVars, returns_map, duration,
                   stock_allocation, withdrawal_rate, periods, successes,
                   success_rate, call>>

\* simulate lines 93-95: one year of the period
SimulateYear ==
    /\ pc = "simulate_for"
    /\ year <= end_year
    /\ IF year \in DOMAIN returns_map
       THEN /\ balance' = update_portfolio(returns_map[year], withdrawal,
                                           stock_allocation, balance)
            /\ history' = Append(history, balance')
            /\ year' = year + 1
            /\ UNCHANGED <<pc, error>>
       ELSE /\ pc' = "error"
            /\ error' = "KeyError"
            /\ UNCHANGED <<balance, history, year>>
    /\ UNCHANGED <<bondVars, aggVars, returns_map, start_year, end_year,
                   duration, stock_allocation, withdrawal_rate, periods, p,
                   successes, withdrawal, success_rate, call>>

\* simulate line 97, added to the sum of line 60
SimulateReturn ==
    /\ pc = "simulate_for"
    /\ year > end_year
    /\ successes' = successes + (IF survived(balance) THEN 1 ELSE 0)
    /\ pc' = "csr_for"
    /\ UNCHANGED <<error, bondVars, aggVars, returns_map, start_year, end_year,
                   duration, stock_allocation, withdrawal_rate, periods, p,
                   year, balance, withdrawal, history, success_rate, call>>

\* calc_success_rate answering 0 for an empty list of periods
CsrDivide_zero_for_no_periods ==
    /\ pc = "csr_divide"
    /\ success_rate' = IF Len(periods) = 0 THEN Zero
                       ELSE Round(Frac(successes, Len(periods)), 2)
    /\ pc' = "done"
    /\ UNCHANGED <<error, bondVars, aggVars, returns_map, start_year, end_year,
                   duration, stock_allocation, withdrawal_rate, periods, p,
                   successes, year, balance, withdrawal, history, call>>

\* lines 64-65
CsrDivide ==
    /\ pc = "csr_divide"
    /\ IF Len(periods) = 0
       THEN /\ pc' = "error"
            /\ error' = "ZeroDivisionError"
            /\ UNCHANGED success_rate
       ELSE /\ success_rate' = Round(Frac(successes, Len(periods)), 2)
            /\ pc' = "done"
            /\ UNCHANGED error
    /\ UNCHANGED <<bondVars, aggVars, returns_map, start_year, end_year,
                   duration, stock_allocation, withdrawal_rate, periods, p,
                   successes, year, balance, withdrawal, history, call>>

InitSuccessRate ==
    /\ pc = "csr_enter"
    /\ error = "none"
    /\ call = "calc_success_rate"
    /\ rates = <<>>
    /\ BondsIdle
    /\ shiller = <<>>
    /\ AggIdle
    /\ returns_map \in ReturnMaps
    /\ stock_allocation \in Allocations
    /\ duration \in Durations
    /\ withdrawal_rate \in WithdrawalRates
    /\ start_year = 0 /\ end_year = 0
    /\ periods = <<>> /\ p = 0 /\ successes = 0 /\ year = 0
    /\ balance = Zero /\ withdrawal = Zero /\ history = <<>>
    /\ success_rate = <<>>

NextSuccessRate ==
    \/ CsrEnter
    \/ GetPeriodsEnter \/ GetPeriodsWhile
    \/ CsrNext \/ SimulateYear \/ SimulateReturn \/ CsrDivide

SpecSuccessRate == InitSuccessRate /\ [][NextSuccessRate]_vars

----------------------------------------------------------------------------
(* Properties of the bond fund simulator, checked under SpecBonds. *)

LadderBuilt ==
    pc \in {"sim_nav0", "sim_for", "sim_step", "sim_nav", "sim_record",
             "sim_return", "done"}

\* C1: once init_ladder has run on the empty ladder, the ladder holds exactly
\* 10 bonds in every state between operations, whatever number of step calls
\* followed and whatever their long rates.
C1_LadderSize == LadderBuilt => Len(ladder) = 10

C1_Witness == pc = "sim_for" /\ pos = 4 /\ Len(ladder) = 10 /\ Len(returns) = 3

\* the ladder after init_ladder and j steps on the input
RECURSIVE LadderAfter(_)
LadderAfter(j) ==
    IF j = 0 THEN init_ladder(<<>>, rates[1][2])
    ELSE step(LadderAfter(j - 1), rates[j + 1][2])

\* the j-th output is the rounded change of the NAV over the j-th step, both
\* NAVs computed from the input alone: a full ladder valued at pair j before
\* the step and at pair j+1 after it
ReturnOverStep(j) ==
    LET before == LadderAfter(j - 1)
        after == step(before, rates[j + 1][2])
        nav_before == calc_nav(before, rates[j][1], rates[j][2])
        nav_after == calc_nav(after, rates[j + 1][1], rates[j + 1][2])
    IN  /\ Len(before) = 10
        /\ Len(after) = 10
        /\ RPos(nav_before)
        /\ RPos(nav_after)
        /\ returns[j] = Round(RSub(RDiv(nav_after, nav_before), One), 4)

\* C2: a non-empty input of N rate pairs gives exactly N-1 returns, in input
\* order; the j-th is the rounded change from the NAV of the state before the
\* j-th step to the NAV after it.
C2_OneReturnPerLaterPair ==
    (pc = "done" /\ Len(rates) >= 1) =>
        /\ Len(returns) = Len(rates) - 1
        /\ \A j \in 1..Len(returns) : ReturnOverStep(j)

C2_Witness ==
    /\ pc = "done"
    /\ Len(rates) = 4
    /\ Len(returns) = 3
    /\ returns[1] # returns[2]
    /\ returns[2] # returns[3]

C2_WitnessSingle == pc = "done" /\ Len(rates) = 1 /\ returns = <<>>

\* par_value is the first and coupon_rate the second component of a bond
Par(b) == b[1]
Coupon(b) == b[2]

CouponIncome(dq, n) == Sum([i \in 1..n |-> RMul(Coupon(dq[i]), Par(dq[i]))])

\* C8: a step on a 10-bond ladder removes the front bond, moves the other nine
\* one place forward unchanged, and appends a bond with coupon_rate = long_rate
\* and par_value = coupon income of all ten bonds + par of the removed bond.
C8_StepFrame ==
    [][(pc = "sim_step" /\ Len(ladder) = 10) =>
          /\ Len(ladder') = 10
          /\ \A i \in 1..9 : ladder'[i] = ladder[i + 1]
          /\ Coupon(ladder'[10]) = cur[2]
          /\ Par(ladder'[10]) = RAdd(CouponIncome(ladder, 10), Par(ladder[1]))]_vars

C8_Witness ==
    /\ pc = "sim_record"
    /\ pos = 3
    /\ Len(ladder) = 10
    /\ Par(ladder[10]) # Par(ladder[9])
    /\ Coupon(ladder[10]) # Coupon(ladder[9])
    /\ Coupon(ladder[9]) # Coupon(ladder[8])

\* every rate pair of the input is (r, r)
ConstantFlat(r) == \A i \in 1..Len(rates) : rates[i] = <<r, r>>

\* number of steps the ladder has taken
StepsTaken == IF pc = "sim_step" THEN pos - 2 ELSE pos - 1

----------------------------------------------------------------------------
(* Properties of the historical return aggregation, checked under SpecReturns. *)

Finished == pc \in {"done", "error"}

\* C6: with fewer than 2 rows (0 rows or exactly 1) get_returns fails with an
\* error and never returns a mapping, not even an empty one.
C6_FailsBelowTwoRecords ==
    (Finished /\ Len(shiller) < 2) => pc = "error"

\* what the code does with fewer than 2 rows
C6_Observed ==
    (Finished /\ Len(shiller) < 2) =>
        IF Len(shiller) = 0
        THEN pc = "error" /\ error = "ValueError"
        ELSE pc = "done" /\ returns_map = EmptyDict

\* C7: with N >= 2 consecutive rows the mapping has exactly the N-1 keys of
\* all rows but the last; the entry of the k-th row's year takes stock return
\* and inflation from rows k and k+1 and the bond return from the simulator's
\* k-th output, the NAV change from row k's rates to row k+1's rates; no year
\* is looked up without a bond return.
C7_AlignedByYear ==
    (Finished /\ Len(shiller) >= 2) =>
        LET N == Len(shiller)
            infl(i) == RSub(RDiv(shiller[i + 1].cpi, shiller[i].cpi), One)
            nominal(i) ==
                RDiv(RSub(RAdd(shiller[i + 1].price, shiller[i].dividends),
                          shiller[i].price),
                     shiller[i].price)
            real(x, i) == RSub(RDiv(RAdd(One, x), RAdd(One, infl(i))), One)
        IN  /\ pc = "done"
            /\ error = "none"
            /\ DOMAIN returns_map = {shiller[i].year : i \in 1..(N - 1)}
            /\ Cardinality(DOMAIN returns_map) = N - 1
            /\ Len(returns) = N - 1
            /\ \A i \in 1..(N - 1) :
                  /\ returns_map[shiller[i].year].stocks = real(nominal(i), i)
                  /\ returns_map[shiller[i].year].bonds = real(returns[i], i)
                  /\ ReturnOverStep(i)

C7_Witness ==
    /\ pc = "done"
    /\ Len(shiller) = 3
    /\ returns[1] # returns[2]
    /\ returns_map[1871].bonds # returns_map[1872].bonds
    /\ returns_map[1871].stocks # returns_map[1872].stocks
    /\ shiller[1].cpi # shiller[2].cpi

----------------------------------------------------------------------------
(* Properties of get_periods, checked under SpecPeriods. *)

Max(a, b) == IF a > b THEN a ELSE b

\* C3: for duration >= 1 get_periods returns exactly the pairs
\* (s, s+duration-1), s = start_year, start_year+1, ..., while
\* s+duration-1 <= end_year, in ascending order without gaps or duplicates:
\* max(0, end_year - start_year - duration + 2) periods of duration years
\* each; for (1926, 1995) that is 56, 51, 46, 41 periods for durations
\* 15, 20, 25, 30, the 20-year ones running from (1926,1945) to (1976,1995).
C3_PeriodsEnumerated ==
    (call = "get_periods" /\ pc = "done" /\ duration >= 1) =>
        LET n == Max(0, end_year - start_year - duration + 2)
            study == start_year = 1926 /\ end_year = 1995
        IN  /\ Len(periods) = n
            /\ \A i \in 1..n :
                  /\ periods[i] = <<start_year + i - 1, start_year + i + duration - 2>>
                  /\ periods[i][2] - periods[i][1] + 1 = duration
                  /\ periods[i][2] <= end_year
            /\ (study /\ duration = 15) => Len(periods) = 56
            /\ (study /\ duration = 20) =>
                  /\ Len(periods) = 51
                  /\ periods[1] = <<1926, 1945>>
                  /\ periods[51] = <<1976, 1995>>
            /\ (study /\ duration = 25) => Len(periods) = 46
            /\ (study /\ duration = 30) => Len(periods) = 41

C3_Witness ==
    /\ call = "get_periods"
    /\ pc = "done"
    /\ start_year = 1926 /\ end_year = 1995 /\ duration = 20
    /\ Len(periods) = 51

C3_WitnessNone ==
    /\ call = "get_periods"
    /\ pc = "done"
    /\ duration = end_year - start_year + 2
    /\ periods = <<>>

----------------------------------------------------------------------------
(* Properties of calc_success_rate and simulate, checked under SpecSuccessRate. *)

SetMin(S) == CHOOSE x \in S : \A y \in S : x <= y
SetMax(S) == CHOOSE x \in S : \A y \in S : y <= x

\* every period of d years between first and last, in ascending order
PeriodsWithin(first, last, d) ==
    LET n == Max(0, last - first - d + 2)
    IN  IF n = 0 THEN <<>>
        ELSE [i \in 1..n |-> <<first + i - 1, first + i + d - 2>>]

PeriodsListed == pc \in {"csr_for", "simulate_for", "csr_divide", "done"}

\* C4: the periods calc_success_rate evaluates are all periods of the given
\* duration within the year range of the supplied returns mapping, each
\* simulated once, and the result is survivors / periods rounded to 2 decimals.
C4_PeriodsOfTheMapping ==
    /\ PeriodsListed =>
          periods = PeriodsWithin(SetMin(DOMAIN returns_map),
                                  SetMax(DOMAIN returns_map), duration)
    /\ pc = "done" =>
          /\ p = Len(periods)
          /\ success_rate = Round(Frac(successes, Len(periods)), 2)

\* what the code does: the periods are those of 1926-1995 whatever the mapping
C4_Observed ==
    /\ PeriodsListed => periods = PeriodsWithin(1926, 1995, duration)
    /\ pc = "done" =>
          /\ p = Len(periods)
          /\ success_rate = Round(Frac(successes, Len(periods)), 2)

\* C5: a duration longer than the year span gives zero periods without an
\* error from get_periods, and calc_success_rate then ends in a division by
\* zero: it returns no success rate.
C5_NoPeriodsIsAnError ==
    (call = "calc_success_rate" /\ duration > StudyEnd - StudyStart + 1) =>
        /\ pc = "csr_for" => (periods = <<>> /\ error = "none")
        /\ pc # "done"
        /\ pc = "error" => error = "ZeroDivisionError" /\ success_rate = <<>>
        /\ pc # "csr_enter" => periods = <<>>

C5_Witness ==
    /\ call = "calc_success_rate"
    /\ duration = 71
    /\ pc = "error"
    /\ error = "ZeroDivisionError"
    /\ periods = <<>>

\* the precondition of C10 on the running simulate call
WithinDomain ==
    /\ RLeq(Zero, stock_allocation) /\ RLeq(stock_allocation, One)
    /\ RLeq(Zero, withdrawal_rate)
    /\ \A y \in start_year..end_year :
          y \in DOMAIN returns_map =>
              /\ RLeq(RInt(-1), returns_map[y].stocks)
              /\ RLeq(RInt(-1), returns_map[y].bonds)

\* C10: with 0 <= stock_allocation <= 1, withdrawal_rate >= 0 and all returns
\* of the period >= -1, a balance that is <= 0 at the end of a year is <= 0 at
\* the end of every later year, and simulate answers True exactly when the
\* balance was > 0 at the end of every year of the period.
C10_DepletedStaysDepleted ==
    [][(pc = "simulate_for" /\ WithinDomain) =>
          /\ (history # <<>> /\ RLeq(balance, Zero)) => RLeq(balance', Zero)
          /\ pc' = "csr_for" =>
                (successes' = successes + 1
                    <=> \A i \in 1..Len(history) : RPos(history[i]))
          /\ pc' = "csr_for" => successes' \in {successes, successes + 1}]_vars

C10_Witness ==
    /\ pc = "csr_for"
    /\ WithinDomain
    /\ Len(history) = 30
    /\ RPos(history[4])
    /\ ~RPos(history[5])
    /\ RLess(history[30], history[5])
    /\ p = 1
    /\ successes = 0

====
